---- MODULE Spec2Model ----
(***************************************************************************)
(* Model of transantlator: the Buck rule model and its normalisation       *)
(* (buck.rs), crate-root resolution (buck.rs), the dependency graph and    *)
(* its topological traversal (graph.rs, main.rs) and the Cargo manifest    *)
(* synthesis (translate.rs).                                               *)
(*                                                                         *)
(* Paths are sequences of path components, the empty sequence being the    *)
(* empty path.  Option<T> is a sequence of length at most one.             *)
(***************************************************************************)
EXTENDS Integers, Sequences, FiniteSets, TLC

VARIABLES pc, rule, root, group, result, bytes, rules, graph, tovisit, ordered, yielded,
          rules_by_dir, todo, files

vars == <<pc, rule, root, group, result, bytes, rules, graph, tovisit, ordered, yielded, rules_by_dir, todo, files>>

(***************************************************************************)
(* Bounds of the model.                                                    *)
(***************************************************************************)
MaxSrcs == 3

MaxRules == 3

MaxDeps == 2

(***************************************************************************)
(* Option and sequence helpers.                                            *)
(***************************************************************************)
None == <<>>

Some(x) == <<x>>

unwrap(o) == o[1]

or_else(a, b) == IF a # None THEN a ELSE b

SeqsUpTo(S, n) == UNION {[1..k -> S] : k \in 0..n}

(***************************************************************************)
(* buck.rs: the typed rule model.                                          *)
(***************************************************************************)
BuildRuleType == {"RustBinary", "RustLibrary", "RustTest", "PrebuiltRustLibrary", "Other"}

is_library(typ) == typ \in {"RustLibrary", "PrebuiltRustLibrary"}

\* Path::file_name: the last component, unless the path is empty or ends in ".."
file_name(path) ==
  IF path = <<>> \/ path[Len(path)] = ".." THEN None ELSE Some(path[Len(path)])

\* Path::components().count()
components_count(path) == Len(path)

\* A min_by_key that keeps the last of the minimal elements
RECURSIVE min_by_key_last(_, _, _)
min_by_key_last(paths, i, best) ==
  IF i > Len(paths) THEN best
  ELSE min_by_key_last(paths, i + 1,
         IF components_count(paths[i]) <= components_count(best) THEN paths[i] ELSE best)

\* Iterator::min_by_key over (count, path) pairs: the first of the minimal elements
RECURSIVE min_by_key_from(_, _, _)
min_by_key_from(paths, i, best) ==
  IF i > Len(paths) THEN best
  ELSE min_by_key_from(paths, i + 1,
         IF components_count(paths[i]) < components_count(best) THEN paths[i] ELSE best)

min_by_key(paths) ==
  IF paths = <<>> THEN None ELSE Some(min_by_key_from(paths, 2, paths[1]))

shortest_path_for_filename(srcs, name) ==
  min_by_key(SelectSeq(srcs, LAMBDA x : file_name(x) # None /\ unwrap(file_name(x)) = name))

\* A crate_root that only honours an override listed in srcs
crate_root_listed_override(r) ==
  IF r.typ \notin {"RustBinary", "RustLibrary", "RustTest"} THEN None
  ELSE IF r.crate_root # <<>> /\ \E i \in 1..Len(r.srcs) : r.srcs[i] = r.crate_root
       THEN Some(r.crate_root)
  ELSE LET default_filename == IF is_library(r.typ) THEN "lib.rs" ELSE "main.rs"
           crate_filename == r.krate \o ".rs"
       IN or_else(shortest_path_for_filename(r.srcs, default_filename),
                  shortest_path_for_filename(r.srcs, crate_filename))

\* A crate_root that looks for {crate}.rs before the conventional file name
crate_root_crate_first(r) ==
  IF r.typ \notin {"RustBinary", "RustLibrary", "RustTest"} THEN None
  ELSE IF r.crate_root # <<>> THEN Some(r.crate_root)
  ELSE LET default_filename == IF is_library(r.typ) THEN "lib.rs" ELSE "main.rs"
           crate_filename == r.krate \o ".rs"
       IN or_else(shortest_path_for_filename(r.srcs, crate_filename),
                  shortest_path_for_filename(r.srcs, default_filename))

\* A crate_root without the {crate}.rs fallback
crate_root_no_fallback(r) ==
  IF r.typ \notin {"RustBinary", "RustLibrary", "RustTest"} THEN None
  ELSE IF r.crate_root # <<>> THEN Some(r.crate_root)
  ELSE LET default_filename == IF is_library(r.typ) THEN "lib.rs" ELSE "main.rs"
       IN shortest_path_for_filename(r.srcs, default_filename)

crate_root(r) ==
  IF r.typ \notin {"RustBinary", "RustLibrary", "RustTest"} THEN None
  ELSE IF r.crate_root # <<>> THEN Some(r.crate_root)
  ELSE LET default_filename == IF is_library(r.typ) THEN "lib.rs" ELSE "main.rs"
           crate_filename == r.krate \o ".rs"
       IN or_else(shortest_path_for_filename(r.srcs, default_filename),
                  shortest_path_for_filename(r.srcs, crate_filename))

\* BuildRuleType::is_binary and is_test are called by translate.rs; the
\* executables of a directory are its non-test, non-library rules.
is_binary(typ) == ~is_library(typ)

is_test(typ) == typ = "RustTest"

\* BuildRuleType::krate: the crate field of the variants that krate_mut gives one
krate(r) == IF r.typ = "Other" THEN None ELSE Some(r.krate)

\* BuildRuleType::krate_mut: the variants that carry a crate field
krate_mut(r) ==
  IF r.typ \in {"RustBinary", "RustLibrary", "RustTest", "PrebuiltRustLibrary"}
  THEN Some(r.krate) ELSE None

\* A normalisation that never fills in the crate name
adjust_krate_never(r) == r

\* A normalisation that overwrites every crate name with the rule name
adjust_krate_always(r) ==
  IF krate_mut(r) # None THEN [r EXCEPT !.krate = r.name] ELSE r

\* The body of the loop of from_bytes: an empty crate field becomes the rule name
adjust_krate(r) ==
  IF krate_mut(r) # None /\ unwrap(krate_mut(r)) = "" THEN [r EXCEPT !.krate = r.name] ELSE r

\* from_bytes: the deserialised records, each adjusted; a serde error otherwise
from_bytes(b) ==
  IF ~b.wellformed THEN [kind |-> "Err", rules |-> <<>>]
  ELSE [kind |-> "Ok", rules |-> [t \in DOMAIN b.records |-> adjust_krate(b.records[t])]]

(***************************************************************************)
(* graph.rs: the dependency graph, a petgraph DiGraphMap.  nodes is the    *)
(* insertion-ordered node list, adj the adjacency list of each node.       *)
(* add_node, add_edge, the neighbour iterators and the Topo walk follow    *)
(* the petgraph crate that graph.rs and main.rs call.                      *)
(***************************************************************************)
EmptyGraph == [nodes |-> <<>>, edges |-> {}, adj |-> <<>>]

HasNode(g, n) == \E i \in 1..Len(g.nodes) : g.nodes[i] = n

\* GraphMap::add_node
add_node(g, n) ==
  IF HasNode(g, n) THEN g
  ELSE [g EXCEPT !.nodes = Append(g.nodes, n), !.adj = (n :> <<>>) @@ g.adj]

\* GraphMap::add_edge: both ends become nodes; an edge already there is kept
add_edge(g, a, b) ==
  IF <<a, b>> \in g.edges THEN g
  ELSE LET ga == add_node(g, a)
           gout == [ga EXCEPT !.adj[a] = Append(ga.adj[a], <<b, "Outgoing">>)]
           gb == add_node(gout, b)
           gin == IF a = b THEN gb
                  ELSE [gb EXCEPT !.adj[b] = Append(gb.adj[b], <<a, "Incoming">>)]
       IN [gin EXCEPT !.edges = gin.edges \cup {<<a, b>>}]

\* The inner loop of dep_graph with the edges pointing at the dependent
RECURSIVE add_deps_reversed(_, _, _, _)
add_deps_reversed(g, target, deps, i) ==
  IF i > Len(deps) THEN g
  ELSE add_deps_reversed(add_edge(g, deps[i], target), target, deps, i + 1)

\* The inner loop of dep_graph: an edge from the target to each dependency
RECURSIVE add_deps(_, _, _, _)
add_deps(g, target, deps, i) ==
  IF i > Len(deps) THEN g
  ELSE add_deps(add_edge(g, target, deps[i]), target, deps, i + 1)

\* A dep_graph that leaves out the add_node of each rule
RECURSIVE dep_graph_edges_only(_, _, _, _)
dep_graph_edges_only(g, rs, order, i) ==
  IF i > Len(order) THEN g
  ELSE dep_graph_edges_only(add_deps(g, order[i], rs[order[i]].deps, 1), rs, order, i + 1)

\* dep_graph, visiting the rules in the order the hash map yields them
RECURSIVE dep_graph_from(_, _, _, _)
dep_graph_from(g, rs, order, i) ==
  IF i > Len(order) THEN g
  ELSE dep_graph_from(add_deps(add_node(g, order[i]), order[i], rs[order[i]].deps, 1),
                      rs, order, i + 1)

dep_graph(rs, order) == dep_graph_from(EmptyGraph, rs, order, 1)

\* GraphMap::neighbors_directed: a self loop counts in both directions
neighbors_directed(g, n, dir) ==
  SelectSeq(g.adj[n], LAMBDA e : e[2] = dir \/ e[1] = n)

\* GraphMap::neighbors: the outgoing neighbours
neighbors(g, n) == SelectSeq(g.adj[n], LAMBDA e : e[2] = "Outgoing")

\* Topo::new: the nodes without incoming edges are the first to visit
topo_initials(g) ==
  SelectSeq(g.nodes, LAMBDA n : neighbors_directed(g, n, "Incoming") = <<>>)

\* The loop over the neighbours in Topo::next: a neighbour all of whose
\* incoming neighbours are ordered is pushed
RECURSIVE push_ready(_, _, _, _, _)
push_ready(g, stack, done, ns, i) ==
  IF i > Len(ns) THEN stack
  ELSE LET incoming == neighbors_directed(g, ns[i][1], "Incoming")
           ready == \A k \in 1..Len(incoming) : incoming[k][1] \in done
       IN push_ready(g, IF ready THEN Append(stack, ns[i][1]) ELSE stack, done, ns, i + 1)

\* Topo::next: pop until an unordered node is found
RECURSIVE topo_next(_, _, _)
topo_next(g, stack, done) ==
  IF stack = <<>> THEN [item |-> None, tovisit |-> stack, ordered |-> done]
  ELSE LET nix == stack[Len(stack)]
           rest == SubSeq(stack, 1, Len(stack) - 1)
       IN IF nix \in done THEN topo_next(g, rest, done)
          ELSE [item |-> Some(nix),
                tovisit |-> push_ready(g, rest, done \cup {nix}, neighbors(g, nix), 1),
                ordered |-> done \cup {nix}]

(***************************************************************************)
(* translate.rs: the manifest of one directory, as a sequence of lines.    *)
(***************************************************************************)
\* Path::display
RECURSIVE display(_)
display(path) ==
  IF path = <<>> THEN ""
  ELSE IF Len(path) = 1 THEN path[1]
  ELSE path[1] \o "/" \o display(Tail(path))

toml_header(pkg_name) ==
  << "[package]",
     "name = \"" \o pkg_name \o "\"",
     "version = \"0.1.0\"",
     "authors = [\"Example <author@example.com>\"]" >>

\* One [lib] or [[bin]] block
section(head, name, path) ==
  << "", head, "name = \"" \o name \o "\"", "path = \"" \o display(path) \o "\"" >>

Ok(toml) == [kind |-> "Ok", toml |-> toml, err |-> ""]

Err(msg) == [kind |-> "Err", toml |-> <<>>, err |-> msg]

\* A failed unwrap(): the thread panics and nothing is returned
Panic == [kind |-> "Panic", toml |-> <<>>, err |-> ""]

libs_of(rs) == SelectSeq(rs, LAMBDA r : is_library(r.typ))

\* An executable filter that lets the test rules through
bins_of_with_tests(rs) == SelectSeq(rs, LAMBDA r : is_binary(r.typ))

bins_of(rs) == SelectSeq(rs, LAMBDA r : is_binary(r.typ) /\ ~is_test(r.typ))

\* A check that lets two libraries through
multiple_libs_off_by_one(libs) == Len(libs) > 2

multiple_libs(libs) == Len(libs) > 1

\* The closure default_bin: find() unwraps the crate root of each executable
\* in turn until one is named main.rs
RECURSIVE default_bin(_, _)
default_bin(bins, i) ==
  IF i > Len(bins) THEN [panic |-> FALSE, val |-> None]
  ELSE IF crate_root(bins[i]) = None THEN [panic |-> TRUE, val |-> None]
  ELSE IF file_name(unwrap(crate_root(bins[i]))) = Some("main.rs")
       THEN [panic |-> FALSE, val |-> Some(bins[i])]
  ELSE default_bin(bins, i + 1)

get(s, i) == IF i + 1 <= Len(s) THEN Some(s[i + 1]) ELSE None

\* A default rule that prefers the main.rs executable to the library
default_rule_bin_first(libs, bins) ==
  LET found == default_bin(bins, 1)
  IN IF found.panic \/ found.val # None THEN found
     ELSE IF get(libs, 0) # None THEN [panic |-> FALSE, val |-> get(libs, 0)]
     ELSE [panic |-> FALSE, val |-> get(bins, 0)]

\* A default rule that never looks for a main.rs executable
default_rule_first_bin(libs, bins) ==
  [panic |-> FALSE, val |-> or_else(get(libs, 0), get(bins, 0))]

\* libs.get(0).or_else(default_bin).or_else(|| bins.get(0))
default_rule(libs, bins) ==
  IF get(libs, 0) # None THEN [panic |-> FALSE, val |-> get(libs, 0)]
  ELSE LET found == default_bin(bins, 1)
       IN IF found.panic \/ found.val # None THEN found
          ELSE [panic |-> FALSE, val |-> get(bins, 0)]

\* The [lib] or [[bin]] blocks of rs pushed onto text in turn; an unwrap() of
\* a missing crate name or crate root panics
RECURSIVE push_sections(_, _, _, _)
push_sections(text, head, rs, i) ==
  IF text.kind # "Ok" \/ i > Len(rs) THEN text
  ELSE IF krate(rs[i]) = None \/ crate_root(rs[i]) = None THEN Panic
  ELSE push_sections(
         Ok(text.toml \o section(head, unwrap(krate(rs[i])), unwrap(crate_root(rs[i])))),
         head, rs, i + 1)

translate_buildfile(rs) ==
  LET libs == libs_of(rs)
      bins == bins_of(rs)
      chosen == default_rule(libs, bins)
  IN IF multiple_libs(libs)
       THEN Err("Multiple rust_library() in single buildfile is not yet supported")
     ELSE IF chosen.panic THEN Panic
     ELSE IF chosen.val = None
       THEN Err("Couldn't find a fitting default Rule for buildfile")
     ELSE IF krate(unwrap(chosen.val)) = None THEN Panic
     ELSE LET header == Ok(toml_header(unwrap(krate(unwrap(chosen.val)))))
              with_lib == IF get(libs, 0) # None
                          THEN push_sections(header, "[lib]", <<unwrap(get(libs, 0))>>, 1)
                          ELSE header
          IN push_sections(with_lib, "[[bin]]", bins, 1)

\* The loop that fills rules_by_dir: each (target, rule) is pushed onto the
\* list of its base_path, in the order the iterator yields them
RECURSIVE group_by_dir(_, _, _, _)
group_by_dir(by_dir, rs, order, i) ==
  IF i > Len(order) THEN by_dir
  ELSE LET dir == rs[order[i]].base_path
           entry == <<order[i], rs[order[i]]>>
       IN group_by_dir(
            IF dir \in DOMAIN by_dir THEN [by_dir EXCEPT ![dir] = Append(@, entry)]
            ELSE (dir :> <<entry>>) @@ by_dir,
            rs, order, i + 1)

\* The rules of a list of (target, rule) pairs
rules_of(pairs) == [i \in 1..Len(pairs) |-> pairs[i][2]]

\* buck_root.join(base_dir).join("Cargo.toml")
manifest_path(buck_root, base_dir) == buck_root \o base_dir \o <<"Cargo.toml">>

\* A loop that goes on to the next directory after a failed one
on_failure_continue(r) == "dirs"

\* The ? operators of the loop body: an error ends translate_rules, a panic
\* unwinds through it
on_failure(r) == IF r.kind = "Panic" THEN "panicked" ELSE "failed"

(***************************************************************************)
(* Inputs of the crate-root resolution.                                    *)
(***************************************************************************)
SrcPaths ==
  { <<"main.rs">>, <<"src", "main.rs">>, <<"bin", "main.rs">>,
    <<"lib.rs">>, <<"src", "lib.rs">>,
    <<"a.rs">>, <<"src", "a.rs">>, <<"src", "..">> }

Overrides == { <<>>, <<"override.rs">>, <<"src", "lib.rs">> }

Krates == { "", "a", "lib", "main" }

\* The variants with srcs, crate_root and crate fields; prebuilt libraries have
\* a crate field only and an unrecognised rule has none of them.
TypedRules ==
  [typ : {"RustBinary", "RustLibrary", "RustTest"},
   srcs : SeqsUpTo(SrcPaths, MaxSrcs), crate_root : Overrides, krate : Krates]
  \cup [typ : {"PrebuiltRustLibrary"}, srcs : {<<>>}, crate_root : {<<>>}, krate : Krates]
  \cup [typ : {"Other"}, srcs : {<<>>}, crate_root : {<<>>}, krate : {""}]

\* The rules of a directory group handed to translate_buildfile: their crate
\* names are already normalised
GroupSources ==
  { [srcs |-> << <<"main.rs">> >>, crate_root |-> <<>>],
    [srcs |-> << <<"src", "lib.rs">> >>, crate_root |-> <<>>],
    [srcs |-> << <<"a.rs">> >>, crate_root |-> <<>>],
    [srcs |-> <<>>, crate_root |-> <<"override.rs">>] }

GroupRules ==
  { [typ |-> t, srcs |-> s.srcs, crate_root |-> s.crate_root, krate |-> k] :
      t \in {"RustBinary", "RustLibrary", "RustTest"}, s \in GroupSources, k \in {"a", "b"} }
  \cup [typ : {"PrebuiltRustLibrary"}, srcs : {<<>>}, crate_root : {<<>>}, krate : {"a", "b"}]
  \cup [typ : {"Other"}, srcs : {<<>>}, crate_root : {<<>>}, krate : {""}]

NoRule == [typ |-> "Other", srcs |-> <<>>, crate_root |-> <<>>, krate |-> ""]

NoResult == [kind |-> "none", toml |-> <<>>, err |-> ""]

NoGraph == EmptyGraph

\* Rule identifiers and the rule sets main builds its graph from
Targets == {"//d:t1", "//d:t2", "//d:t3"}

BuildRule(name, deps, t) ==
  [name |-> name, base_path |-> <<"d">>, deps |-> deps,
   typ |-> t.typ, srcs |-> t.srcs, crate_root |-> t.crate_root, krate |-> t.krate]

ALibrary == [typ |-> "RustLibrary", srcs |-> << <<"lib.rs">> >>, crate_root |-> <<>>, krate |-> "a"]

RuleSets ==
  UNION {[D -> {BuildRule("a", deps, ALibrary) : deps \in SeqsUpTo(Targets, MaxDeps)}] :
           D \in SUBSET Targets}

\* The orders in which a hash map may yield the keys of rs
Orders(rs) ==
  {o \in [1..Cardinality(DOMAIN rs) -> DOMAIN rs] :
     \A i, j \in DOMAIN o : i # j => o[i] # o[j]}

\* The raw records from_bytes deserialises
RawFields ==
  { [deps |-> <<>>, srcs |-> <<>>, crate_root |-> <<>>],
    [deps |-> <<"//d:t1">>, srcs |-> << <<"src", "lib.rs">> >>, crate_root |-> <<"override.rs">>] }

RawRecords ==
  { [name |-> n, base_path |-> <<"d">>, deps |-> f.deps,
     typ |-> t, srcs |-> f.srcs, crate_root |-> f.crate_root, krate |-> k] :
      n \in {"", "x", "y"}, f \in RawFields,
      t \in {"RustBinary", "RustLibrary", "RustTest"}, k \in {"", "k"} }
  \cup { [name |-> n, base_path |-> <<"d">>, deps |-> f.deps,
          typ |-> "PrebuiltRustLibrary", srcs |-> <<>>, crate_root |-> <<>>, krate |-> k] :
          n \in {"", "x", "y"}, f \in RawFields, k \in {"", "k"} }
  \cup { [name |-> n, base_path |-> <<"d">>, deps |-> f.deps,
          typ |-> "Other", srcs |-> <<>>, crate_root |-> <<>>, krate |-> ""] :
          n \in {"", "x", "y"}, f \in RawFields }

NormTargets == {"//d:t1", "//d:t2"}

Inputs ==
  {[wellformed |-> FALSE, records |-> <<>>]}
  \cup {[wellformed |-> TRUE, records |-> recs] :
          recs \in UNION {[D -> RawRecords] : D \in SUBSET NormTargets}}

NoBytes == [wellformed |-> FALSE, records |-> <<>>]

(***************************************************************************)
(* Specification of crate_root: a rule is drawn, then resolved.            *)
(***************************************************************************)
InitRoot ==
  /\ pc = "root"
  /\ rule \in TypedRules
  /\ root = None
  /\ group = <<>> /\ result = NoResult
  /\ bytes = NoBytes /\ rules = <<>> /\ graph = NoGraph
  /\ tovisit = <<>> /\ ordered = {} /\ yielded = <<>>
  /\ rules_by_dir = <<>> /\ todo = {} /\ files = <<>>

ResolveCrateRoot ==
  /\ pc = "root"
  /\ root' = crate_root(rule)
  /\ pc' = "resolved"
  /\ UNCHANGED <<rule, group, result, bytes, rules, graph, tovisit, ordered, yielded, rules_by_dir, todo, files>>

NextRoot == ResolveCrateRoot

SpecRoot == InitRoot /\ [][NextRoot]_vars

(***************************************************************************)
(* Specification of translate_buildfile: the rules of one directory are    *)
(* drawn in their input order, then translated.                            *)
(***************************************************************************)
InitTranslate ==
  /\ pc = "translate"
  /\ group \in SeqsUpTo(GroupRules, MaxRules)
  /\ result = NoResult
  /\ rule = NoRule /\ root = None
  /\ bytes = NoBytes /\ rules = <<>> /\ graph = NoGraph
  /\ tovisit = <<>> /\ ordered = {} /\ yielded = <<>>
  /\ rules_by_dir = <<>> /\ todo = {} /\ files = <<>>

TranslateBuildfile ==
  /\ pc = "translate"
  /\ result' = translate_buildfile(group)
  /\ pc' = "translated"
  /\ UNCHANGED <<rule, root, group, bytes, rules, graph, tovisit, ordered, yielded, rules_by_dir, todo, files>>

NextTranslate == TranslateBuildfile

SpecTranslate == InitTranslate /\ [][NextTranslate]_vars

(***************************************************************************)
(* Specification of from_bytes: the query output is drawn, then loaded.    *)
(***************************************************************************)
InitNorm ==
  /\ pc = "load"
  /\ bytes \in Inputs
  /\ rules = <<>>
  /\ rule = NoRule /\ root = None /\ group = <<>> /\ result = NoResult
  /\ graph = NoGraph /\ tovisit = <<>> /\ ordered = {} /\ yielded = <<>>
  /\ rules_by_dir = <<>> /\ todo = {} /\ files = <<>>

FromBytesOk ==
  /\ pc = "load"
  /\ from_bytes(bytes).kind = "Ok"
  /\ rules' = from_bytes(bytes).rules
  /\ pc' = "loaded"
  /\ UNCHANGED <<rule, root, group, result, bytes, graph, tovisit, ordered, yielded, rules_by_dir, todo, files>>

FromBytesErr ==
  /\ pc = "load"
  /\ from_bytes(bytes).kind = "Err"
  /\ pc' = "malformed"
  /\ UNCHANGED <<rule, root, group, result, bytes, rules, graph, tovisit, ordered, yielded, rules_by_dir, todo, files>>

NextNorm == FromBytesOk \/ FromBytesErr

SpecNorm == InitNorm /\ [][NextNorm]_vars

(***************************************************************************)
(* Specification of main after the query: the graph is built, then the     *)
(* topological walk prints one identifier per call of next.                *)
(***************************************************************************)
InitTopo ==
  /\ pc = "main"
  /\ rules \in RuleSets
  /\ graph = NoGraph /\ tovisit = <<>> /\ ordered = {} /\ yielded = <<>>
  /\ rules_by_dir = <<>> /\ todo = {} /\ files = <<>>
  /\ rule = NoRule /\ root = None /\ group = <<>> /\ result = NoResult
  /\ bytes = NoBytes

DepGraph ==
  /\ pc = "main"
  /\ \E order \in Orders(rules) : graph' = dep_graph(rules, order)
  /\ pc' = "graph"
  /\ UNCHANGED <<rule, root, group, result, bytes, rules, tovisit, ordered, yielded, rules_by_dir, todo, files>>

TopoNew ==
  /\ pc = "graph"
  /\ tovisit' = topo_initials(graph)
  /\ ordered' = {}
  /\ pc' = "topo"
  /\ UNCHANGED <<rule, root, group, result, bytes, rules, graph, yielded, rules_by_dir, todo, files>>

TopoYield ==
  /\ pc = "topo"
  /\ LET step == topo_next(graph, tovisit, ordered)
     IN /\ step.item # None
        /\ tovisit' = step.tovisit
        /\ ordered' = step.ordered
        /\ yielded' = Append(yielded, unwrap(step.item))
  /\ UNCHANGED <<pc, rule, root, group, result, bytes, rules, graph, rules_by_dir, todo, files>>

TopoEnd ==
  /\ pc = "topo"
  /\ LET step == topo_next(graph, tovisit, ordered)
     IN /\ step.item = None
        /\ tovisit' = step.tovisit
        /\ ordered' = step.ordered
  /\ pc' = "done"
  /\ UNCHANGED <<rule, root, group, result, bytes, rules, graph, yielded, rules_by_dir, todo, files>>

NextTopo == DepGraph \/ TopoNew \/ TopoYield \/ TopoEnd

SpecTopo == InitTopo /\ [][NextTopo]_vars

(***************************************************************************)
(* Specification of translate_rules: the rules are grouped by directory,   *)
(* then the directories are translated and written one by one, in the      *)
(* order the hash map yields them.                                         *)
(***************************************************************************)
BuckRoot == <<"root">>

Dirs == { <<"d1">>, <<"d2">>, <<"d3">> }

DirRuleTypes ==
  { [typ |-> "RustLibrary", srcs |-> << <<"src", "lib.rs">> >>, crate_root |-> <<>>, krate |-> "a"],
    [typ |-> "RustBinary", srcs |-> << <<"main.rs">> >>, crate_root |-> <<>>, krate |-> "b"],
    [typ |-> "RustBinary", srcs |-> << <<"a.rs">> >>, crate_root |-> <<>>, krate |-> "b"],
    [typ |-> "RustTest", srcs |-> << <<"main.rs">> >>, crate_root |-> <<>>, krate |-> "a"] }

DirRules ==
  { [BuildRule(t.krate, <<>>, t) EXCEPT !.base_path = d] : t \in DirRuleTypes, d \in Dirs }

DirRuleSets == UNION {[D -> DirRules] : D \in SUBSET Targets}

InitRules ==
  /\ pc = "rules"
  /\ rules \in DirRuleSets
  /\ rules_by_dir = <<>> /\ todo = {} /\ files = <<>>
  /\ result = NoResult
  /\ rule = NoRule /\ root = None /\ group = <<>> /\ bytes = NoBytes
  /\ graph = NoGraph /\ tovisit = <<>> /\ ordered = {} /\ yielded = <<>>

GroupByDir ==
  /\ pc = "rules"
  /\ \E order \in Orders(rules) :
       /\ rules_by_dir' = group_by_dir(<<>>, rules, order, 1)
       /\ todo' = DOMAIN rules_by_dir'
  /\ pc' = "dirs"
  /\ UNCHANGED <<rule, root, group, result, bytes, rules, graph, tovisit, ordered, yielded, files>>

\* One turn of the loop whose manifest is translated and written
WriteManifest ==
  /\ pc = "dirs"
  /\ \E base_dir \in todo :
       LET contents == translate_buildfile(rules_of(rules_by_dir[base_dir]))
       IN /\ contents.kind = "Ok"
          /\ result' = contents
          /\ files' = (manifest_path(BuckRoot, base_dir) :> contents.toml) @@ files
          /\ todo' = todo \ {base_dir}
  /\ UNCHANGED <<pc, rule, root, group, bytes, rules, graph, tovisit, ordered, yielded, rules_by_dir>>

\* One turn of the loop whose translation fails
GroupFails ==
  /\ pc = "dirs"
  /\ \E base_dir \in todo :
       LET contents == translate_buildfile(rules_of(rules_by_dir[base_dir]))
       IN /\ contents.kind # "Ok"
          /\ result' = contents
          /\ pc' = on_failure(contents)
          /\ todo' = todo \ {base_dir}
  /\ UNCHANGED <<rule, root, group, bytes, rules, graph, tovisit, ordered, yielded, rules_by_dir, files>>

\* One turn of the loop whose manifest file cannot be opened
OpenFails ==
  /\ pc = "dirs"
  /\ \E base_dir \in todo :
       /\ translate_buildfile(rules_of(rules_by_dir[base_dir])).kind = "Ok"
       /\ todo' = todo \ {base_dir}
  /\ result' = Err("io")
  /\ pc' = "failed"
  /\ UNCHANGED <<rule, root, group, bytes, rules, graph, tovisit, ordered, yielded, rules_by_dir, files>>

\* The loop has run out of directories: Ok(())
TranslateRulesOk ==
  /\ pc = "dirs"
  /\ todo = {}
  /\ pc' = "ok"
  /\ UNCHANGED <<rule, root, group, result, bytes, rules, graph, tovisit, ordered, yielded, rules_by_dir, todo, files>>

NextRules == GroupByDir \/ WriteManifest \/ GroupFails \/ OpenFails \/ TranslateRulesOk

SpecRules == InitRules /\ [][NextRules]_vars

(***************************************************************************)
(* Properties of crate_root, stated on the resolved rule without using     *)
(* the operators of the resolution.                                        *)
(***************************************************************************)
HasSrcs(r) == r.typ \in {"RustBinary", "RustLibrary", "RustTest"}

Conventional(r) == IF r.typ = "RustLibrary" THEN "lib.rs" ELSE "main.rs"

\* Indices of the sources of r whose last component is name
Named(r, name) ==
  {i \in 1..Len(r.srcs) : r.srcs[i][Len(r.srcs[i])] = name}

\* The first index of I whose source has the fewest components
Shallowest(r, I) ==
  CHOOSE i \in I :
    \A j \in I : \/ Len(r.srcs[i]) < Len(r.srcs[j])
                 \/ Len(r.srcs[i]) = Len(r.srcs[j]) /\ i <= j

\* C2: a rule with srcs (Executable, Library, Test) and a non-empty crate_root
\* override resolves to exactly that override, whatever its source list holds.
C2_OverrideWins ==
  (pc = "resolved" /\ HasSrcs(rule) /\ rule.crate_root # <<>>)
    => root = <<rule.crate_root>>

C2_Witness ==
  /\ pc = "resolved" /\ rule.typ = "RustLibrary"
  /\ rule.crate_root = <<"override.rs">>
  /\ rule.srcs = << <<"lib.rs">>, <<"a.rs">> >>
  /\ root = << <<"override.rs">> >>

\* C3: without an override, when some source is named with the conventional
\* file name, the root is the matching source with the fewest components, and
\* among several of those the one that comes first in the source list.
C3_ShallowestConventional ==
  (pc = "resolved" /\ HasSrcs(rule) /\ rule.crate_root = <<>>
     /\ Named(rule, Conventional(rule)) # {})
    => root = <<rule.srcs[Shallowest(rule, Named(rule, Conventional(rule)))]>>

C3_Witness ==
  /\ pc = "resolved" /\ rule.typ = "RustBinary" /\ rule.crate_root = <<>>
  /\ rule.srcs = << <<"bin", "main.rs">>, <<"src", "main.rs">> >>
  /\ root = << <<"bin", "main.rs">> >>

\* C4: without an override, when the sources hold both a conventional-name
\* file and a {module_name}.rs file, the root is a conventional-name file, at
\* equal depth and also when the module-name file is the shallower one.
C4_ConventionalBeforeModuleName ==
  (pc = "resolved" /\ HasSrcs(rule) /\ rule.crate_root = <<>>
     /\ Named(rule, Conventional(rule)) # {}
     /\ Named(rule, rule.krate \o ".rs") # {})
    => /\ root # <<>>
       /\ root[1][Len(root[1])] = Conventional(rule)

C4_Witness ==
  /\ pc = "resolved" /\ rule.typ = "RustLibrary" /\ rule.crate_root = <<>>
  /\ rule.krate = "a"
  /\ rule.srcs = << <<"a.rs">>, <<"src", "lib.rs">> >>
  /\ root = << <<"src", "lib.rs">> >>

\* The general part of C5: without an override and without a conventional-name
\* source, the root is the shallowest (first among equals) source named
\* {module_name}.rs, and none when there is no such source.
C5_Fallback ==
  (pc = "resolved" /\ HasSrcs(rule) /\ rule.crate_root = <<>>
     /\ Named(rule, Conventional(rule)) = {})
    => IF Named(rule, rule.krate \o ".rs") = {}
       THEN root = <<>>
       ELSE root = <<rule.srcs[Shallowest(rule, Named(rule, rule.krate \o ".rs"))]>>

\* C5 (as amended): the fallback above; in particular an Executable whose only
\* source is lib.rs and whose module name is not "lib", and a Library whose
\* only source is main.rs and whose module name is not "main", resolve to none.
C5_ModuleNameFallback ==
  /\ C5_Fallback
  /\ (pc = "resolved" /\ rule.crate_root = <<>> /\ Len(rule.srcs) = 1
        /\ rule.typ = "RustBinary" /\ Named(rule, "lib.rs") = {1} /\ rule.krate # "lib")
       => root = <<>>
  /\ (pc = "resolved" /\ rule.crate_root = <<>> /\ Len(rule.srcs) = 1
        /\ rule.typ = "RustLibrary" /\ Named(rule, "main.rs") = {1} /\ rule.krate # "main")
       => root = <<>>

C5_Witness ==
  /\ pc = "resolved" /\ rule.typ = "RustLibrary" /\ rule.crate_root = <<>>
  /\ rule.krate = "a"
  /\ rule.srcs = << <<"src", "a.rs">>, <<"main.rs">>, <<"a.rs">> >>
  /\ root = << <<"a.rs">> >>

\* C5 (as claimed): the fallback, and every Executable whose only source is
\* lib.rs and every Library whose only source is main.rs resolve to none.
C5_AsClaimed ==
  /\ C5_Fallback
  /\ (pc = "resolved" /\ rule.crate_root = <<>> /\ Len(rule.srcs) = 1
        /\ rule.typ = "RustBinary" /\ Named(rule, "lib.rs") = {1})
       => root = <<>>
  /\ (pc = "resolved" /\ rule.crate_root = <<>> /\ Len(rule.srcs) = 1
        /\ rule.typ = "RustLibrary" /\ Named(rule, "main.rs") = {1})
       => root = <<>>

(***************************************************************************)
(* Properties of translate_buildfile, stated on the group and the lines of *)
(* the returned manifest.                                                  *)
(***************************************************************************)
Libraries == {i \in 1..Len(group) : group[i].typ \in {"RustLibrary", "PrebuiltRustLibrary"}}

Executables == {i \in 1..Len(group) : group[i].typ = "RustBinary"}

Unresolvable(I) == {i \in I : crate_root(group[i]) = <<>>}

NameLine(name) == "name = \"" \o name \o "\""

PathLine(r) == "path = \"" \o display(crate_root(r)[1]) \o "\""

\* Line numbers of the manifest that read text
LinesReading(text) == {n \in 1..Len(result.toml) : result.toml[n] = text}

\* The k-th smallest element of a set of indices
Nth(I, k) == CHOOSE i \in I : Cardinality({j \in I : j < i}) = k - 1

\* C6: a group with more than one library rule (Library or PrebuiltLibrary)
\* is refused with the multiple-libraries error and no manifest, whatever
\* executables and tests it holds and whether or not crate roots resolve.
C6_MultipleLibsRejected ==
  (pc = "translated" /\ Cardinality(Libraries) > 1)
    => /\ result.kind = "Err"
       /\ result.err = "Multiple rust_library() in single buildfile is not yet supported"
       /\ result.toml = <<>>

C6_Witness ==
  /\ pc = "translated" /\ Len(group) = 3
  /\ group[1].typ = "RustBinary" /\ Unresolvable({1}) = {1}
  /\ group[2].typ = "RustLibrary" /\ group[3].typ = "PrebuiltRustLibrary"
  /\ result.kind = "Err"

\* C7: with exactly one library and executables, all with resolvable crate
\* roots, the manifest is the header naming the library's module, then one
\* [lib] block with the library's module and crate root, then one [[bin]]
\* block per executable in input order.
C7_LibraryNamesPackage ==
  (pc = "translated" /\ Cardinality(Libraries) = 1
     /\ Unresolvable(Libraries \cup Executables) = {}
     /\ \A i \in 1..Len(group) : group[i].typ # "Other")
    => LET lib == group[CHOOSE i \in Libraries : TRUE]
           n == Cardinality(Executables)
       IN /\ result.kind = "Ok"
          /\ Len(result.toml) = 8 + 4 * n
          /\ result.toml[1] = "[package]"
          /\ result.toml[2] = NameLine(lib.krate)
          /\ LinesReading("[lib]") = {6}
          /\ result.toml[7] = NameLine(lib.krate)
          /\ result.toml[8] = PathLine(lib)
          /\ LinesReading("[[bin]]") = {6 + 4 * k : k \in 1..n}
          /\ \A k \in 1..n :
                /\ result.toml[7 + 4 * k] = NameLine(group[Nth(Executables, k)].krate)
                /\ result.toml[8 + 4 * k] = PathLine(group[Nth(Executables, k)])

C7_Witness ==
  /\ pc = "translated" /\ Len(group) = 3
  /\ group[1].typ = "RustBinary" /\ group[1].krate = "b"
  /\ group[1].srcs = << <<"main.rs">> >>
  /\ group[2].typ = "RustLibrary" /\ group[2].krate = "a"
  /\ group[2].srcs = << <<"src", "lib.rs">> >>
  /\ group[3].typ = "RustBinary" /\ group[3].krate = "a"
  /\ group[3].srcs = << <<"a.rs">> >>
  /\ result.kind = "Ok"
  /\ result.toml[2] = "name = \"a\""
  /\ result.toml[8] = "path = \"src/lib.rs\""
  /\ result.toml[11] = "name = \"b\""
  /\ result.toml[16] = "path = \"a.rs\""

\* Executables whose crate root is a file named main.rs
MainExecutables ==
  {i \in Executables \ Unresolvable(Executables) :
     LET p == crate_root(group[i])[1] IN p[Len(p)] = "main.rs"}

\* C8: in a manifest of a group without a library, the package is named after
\* the first executable (in input order) whose crate root is a file named
\* main.rs, and after the first executable when there is no such executable.
C8_ExecutableNamesPackage ==
  (pc = "translated" /\ result.kind = "Ok" /\ Libraries = {} /\ Executables # {})
    => result.toml[2] =
         NameLine(group[IF MainExecutables # {} THEN Nth(MainExecutables, 1)
                        ELSE Nth(Executables, 1)].krate)

C8_Witness ==
  /\ pc = "translated" /\ Len(group) = 3
  /\ \A i \in 1..3 : group[i].typ = "RustBinary"
  /\ group[1].krate = "a" /\ group[1].srcs = << <<"a.rs">> >>
  /\ group[2].krate = "b" /\ group[2].srcs = << <<"main.rs">> >>
  /\ group[3].krate = "a" /\ group[3].srcs = << <<"main.rs">> >>
  /\ result.kind = "Ok"
  /\ result.toml[2] = "name = \"b\""

\* C9: a group with a library or executable rule whose crate root does not
\* resolve ends in an error result and no manifest text.
C9_UnresolvableIsError ==
  (pc = "translated" /\ Unresolvable(Libraries \cup Executables) # {})
    => result.kind = "Err" /\ result.toml = <<>>

(***************************************************************************)
(* Properties of the topological walk of main.                             *)
(***************************************************************************)
\* Pairs joined by a path of edges, by repeated composition
RECURSIVE PathsWithin(_, _)
PathsWithin(E, n) ==
  IF n = 0 THEN E
  ELSE LET P == PathsWithin(E, n - 1)
       IN P \cup {<<q[1][1], q[2][2]>> : q \in {q \in P \X E : q[1][2] = q[2][1]}}

\* The declared dependencies as pairs <<dependent, dependency>>
DeclaredDeps ==
  UNION {{<<t, rules[t].deps[i]>> : i \in 1..Len(rules[t].deps)} : t \in DOMAIN rules}

Acyclic ==
  \A e \in PathsWithin(DeclaredDeps, Cardinality(Targets)) : e[1] # e[2]

YieldedBefore(a, b) ==
  \E i, j \in 1..Len(yielded) : i < j /\ yielded[i] = a /\ yielded[j] = b

\* C1 (as claimed): once the walk over an acyclic rule set has ended, every
\* dependency d of a rule t was yielded earlier than t.
C1_DependencyFirst ==
  (pc = "done" /\ Acyclic)
    => \A e \in DeclaredDeps : YieldedBefore(e[2], e[1])

\* C1 (as amended): once the walk over an acyclic rule set has ended, every
\* rule t was yielded earlier than each of its dependencies d, and every
\* identifier of the graph was yielded exactly once.
C1_DependentFirst ==
  (pc = "done" /\ Acyclic)
    => /\ \A e \in DeclaredDeps : YieldedBefore(e[1], e[2])
       /\ \A i, j \in 1..Len(yielded) : yielded[i] = yielded[j] => i = j
       /\ {yielded[i] : i \in 1..Len(yielded)} = {graph.nodes[i] : i \in 1..Len(graph.nodes)}

C1_Witness ==
  /\ pc = "done"
  /\ DOMAIN rules = {"//d:t1", "//d:t2", "//d:t3"}
  /\ rules["//d:t1"].deps = <<"//d:t2", "//d:t3">>
  /\ rules["//d:t2"].deps = <<"//d:t3">>
  /\ rules["//d:t3"].deps = <<>>
  /\ yielded = <<"//d:t1", "//d:t2", "//d:t3">>

(***************************************************************************)
(* Properties of from_bytes.                                               *)
(***************************************************************************)
HasModuleName(r) ==
  r.typ \in {"RustBinary", "RustLibrary", "RustTest", "PrebuiltRustLibrary"}

\* C10 (as claimed): every loaded rule that carries a module name has a
\* non-empty one.
C10_ModuleNameNonEmpty ==
  pc = "loaded" => \A t \in DOMAIN rules : HasModuleName(rules[t]) => rules[t].krate # ""

\* C10 (as amended): a loaded rule that carries a module name has a non-empty
\* one exactly when its record has a non-empty name or a non-empty crate field.
C10_ModuleNameNonEmptyIfNamed ==
  pc = "loaded"
    => \A t \in DOMAIN rules :
         HasModuleName(rules[t])
           => (rules[t].krate # "" <=> (bytes.records[t].name # "" \/ bytes.records[t].krate # ""))

C10_Witness ==
  /\ pc = "loaded"
  /\ "//d:t1" \in DOMAIN rules
  /\ bytes.records["//d:t1"].typ = "RustTest"
  /\ bytes.records["//d:t1"].name = "x"
  /\ bytes.records["//d:t1"].krate = ""
  /\ rules["//d:t1"].krate = "x"

\* C11: from_bytes loads exactly the records it was given; a rule that carries
\* a module name and had an empty one gets its own name as module name, every
\* other module name and every other field of every rule is left as it was.
C11_NormalizationFrame ==
  pc = "loaded"
    => /\ DOMAIN rules = DOMAIN bytes.records
       /\ \A t \in DOMAIN rules :
            LET before == bytes.records[t]
                after == rules[t]
            IN /\ after.krate =
                    IF HasModuleName(before) /\ before.krate = "" THEN before.name
                    ELSE before.krate
               /\ after.name = before.name
               /\ after.base_path = before.base_path
               /\ after.deps = before.deps
               /\ after.srcs = before.srcs
               /\ after.crate_root = before.crate_root
               /\ after.typ = before.typ

C11_Witness ==
  /\ pc = "loaded"
  /\ DOMAIN rules = {"//d:t1", "//d:t2"}
  /\ bytes.records["//d:t1"].typ = "RustLibrary"
  /\ bytes.records["//d:t1"].name = "x" /\ bytes.records["//d:t1"].krate = ""
  /\ bytes.records["//d:t1"].crate_root = <<"override.rs">>
  /\ bytes.records["//d:t2"].typ = "RustBinary"
  /\ bytes.records["//d:t2"].name = "y" /\ bytes.records["//d:t2"].krate = "k"
  /\ rules["//d:t1"].krate = "x" /\ rules["//d:t1"].crate_root = <<"override.rs">>
  /\ rules["//d:t2"].krate = "k"

(***************************************************************************)
(* Properties of dep_graph.                                                *)
(***************************************************************************)
NodeSet == {graph.nodes[i] : i \in 1..Len(graph.nodes)}

\* How often the adjacency list of a holds the entry e
Occurrences(a, e) == Cardinality({i \in 1..Len(graph.adj[a]) : graph.adj[a][i] = e})

\* C12: the graph dep_graph returns has every rule identifier as a node, also
\* those of rules without dependencies, and exactly one edge from t to d for
\* each dependency d that rule t declares, self-dependencies and dependencies
\* on identifiers outside the rule set included; it is built for every rule set.
C12_GraphOfDeclaredDeps ==
  /\ pc = "main" => \A order \in Orders(rules) : dep_graph(rules, order).edges = DeclaredDeps
  /\ pc = "graph"
    => /\ DOMAIN rules \subseteq NodeSet
       /\ \A i, j \in 1..Len(graph.nodes) : graph.nodes[i] = graph.nodes[j] => i = j
       /\ graph.edges = DeclaredDeps
       /\ \A e \in DeclaredDeps :
            /\ e[1] \in NodeSet /\ e[2] \in NodeSet
            /\ Occurrences(e[1], <<e[2], "Outgoing">>) = 1
            /\ e[1] # e[2] => Occurrences(e[2], <<e[1], "Incoming">>) = 1

C12_Witness ==
  /\ pc = "graph"
  /\ DOMAIN rules = {"//d:t1", "//d:t2"}
  /\ rules["//d:t1"].deps = <<"//d:t1", "//d:t3">>
  /\ rules["//d:t2"].deps = <<>>
  /\ NodeSet = {"//d:t1", "//d:t2", "//d:t3"}
  /\ graph.edges = {<<"//d:t1", "//d:t1">>, <<"//d:t1", "//d:t3">>}

(***************************************************************************)
(* Further properties of translate_buildfile.                              *)
(***************************************************************************)
Tests == {i \in 1..Len(group) : group[i].typ = "RustTest"}

Unrecognized == {i \in 1..Len(group) : group[i].typ = "Other"}

\* C13: a group that is empty or holds Test rules only is refused with the
\* no-default-rule error and no manifest.
C13_NoDefaultTarget ==
  (pc = "translated" /\ Tests = 1..Len(group))
    => /\ result.kind = "Err"
       /\ result.err = "Couldn't find a fitting default Rule for buildfile"
       /\ result.toml = <<>>

C13_Witness ==
  /\ pc = "translated" /\ Len(group) = 2 /\ Tests = {1, 2}
  /\ group[1].srcs = << <<"main.rs">> >>
  /\ group[2].crate_root = <<"override.rs">>
  /\ result.kind = "Err"

\* C14: an Unrecognized rule has no crate root, and a group that holds one
\* ends in an error result and no manifest.
C14_UnrecognizedIsError ==
  (pc = "translated" /\ Unrecognized # {})
    => /\ \A i \in Unrecognized : crate_root(group[i]) = <<>>
       /\ result.kind = "Err"
       /\ result.toml = <<>>

\* The group without its Test rules
WithoutTests == SelectSeq(group, LAMBDA r : r.typ # "RustTest")

\* C16: the result for a group is the result for the same group with its Test
\* rules removed, manifest or error alike, and a manifest has one [lib] block
\* per library and one [[bin]] block per non-test, non-library rule, so none
\* for a Test rule.
C16_TestsIgnored ==
  pc = "translated"
    => /\ result = translate_buildfile(WithoutTests)
       /\ result.kind = "Ok"
            => /\ Cardinality(LinesReading("[lib]")) = Cardinality(Libraries)
               /\ Cardinality(LinesReading("[[bin]]")) =
                    Len(group) - Cardinality(Libraries) - Cardinality(Tests)
               /\ Len(result.toml) = 4 + 4 * (Len(group) - Cardinality(Tests))

C16_Witness ==
  /\ pc = "translated" /\ Len(group) = 3
  /\ group[1].typ = "RustTest" /\ group[1].krate = "b"
  /\ group[1].srcs = << <<"a.rs">> >>
  /\ group[2].typ = "RustBinary" /\ group[2].krate = "a"
  /\ group[2].srcs = << <<"main.rs">> >>
  /\ group[3].typ = "RustTest" /\ group[3].srcs = << <<"main.rs">> >>
  /\ result.kind = "Ok"
  /\ Len(result.toml) = 8
  /\ result.toml[2] = "name = \"a\""

(***************************************************************************)
(* Properties of translate_rules.                                          *)
(***************************************************************************)
\* The manifest of a directory translated on its own
OnItsOwn(dir) == translate_buildfile(rules_of(rules_by_dir[dir]))

Translatable == {dir \in DOMAIN rules_by_dir : OnItsOwn(dir).kind = "Ok"}

Written(dir) ==
  /\ BuckRoot \o dir \o <<"Cargo.toml">> \in DOMAIN files
  /\ files[BuckRoot \o dir \o <<"Cargo.toml">>] = OnItsOwn(dir).toml

\* The directories whose turn of the loop has come
Processed == DOMAIN rules_by_dir \ todo

\* C15 (as claimed): when translate_rules has ended on the error of a
\* directory group (not a panic, not a file error), every directory group that
\* translates on its own has its manifest written.
C15_OtherGroupsWritten ==
  (pc = "failed" /\ result.err # "io")
    => \A dir \in Translatable : Written(dir)

\* C15 (as amended): the first failing directory group ends the run.  Only
\* translatable directories processed before it are written, each with its own
\* manifest; a directory whose turn has not come is never written, even when
\* it translates on its own; all are written when the run ends without failure.
C15_FirstFailureEndsRun ==
  pc \in {"dirs", "ok", "failed", "panicked"}
    => /\ \A dir \in DOMAIN rules_by_dir :
            BuckRoot \o dir \o <<"Cargo.toml">> \in DOMAIN files
              => dir \in Processed \cap Translatable /\ Written(dir)
       /\ Cardinality(DOMAIN files) <= Cardinality(Processed)
       /\ (Processed \ Translatable # {}) => pc \in {"failed", "panicked"}
       /\ pc \in {"dirs", "ok"} => \A dir \in Processed : Written(dir)
       /\ pc = "ok" => \A dir \in DOMAIN rules_by_dir : Written(dir)
       /\ pc \in {"failed", "panicked"}
            => /\ Cardinality({dir \in Processed : ~Written(dir)}) = 1
               /\ \A dir \in todo : ~Written(dir)

C15_Witness ==
  /\ pc = "failed"
  /\ result.err = "Multiple rust_library() in single buildfile is not yet supported"
  /\ DOMAIN rules_by_dir = {<<"d1">>, <<"d2">>}
  /\ todo = {<<"d2">>}
  /\ <<"d2">> \in Translatable
  /\ files = <<>>

====
